---- MODULE Spec2Model ----
(***************************************************************************)
(* Model of _tools/generate_repo.py: class Generator, whose constructor    *)
(* runs the whole pipeline  __init__ -> _pre_run -> _generate_repo_files   *)
(* -> _generate_addons_file -> _generate_md5_file -> _generate_zip_files.  *)
(*                                                                         *)
(* A Python string is a sequence of symbols (an element of Seq(STRING)):   *)
(* "_" + "out/" + "A" is <<"_", "out", "/", "A">>.  The separators "/",    *)
(* ".", "," and " " are symbols of their own and no symbol is a            *)
(* concatenation of other symbols, so two strings are equal exactly when   *)
(* their sequences are.  A path of the file system is the sequence of its  *)
(* component names, relative to the working directory (the parent of the   *)
(* tooling directory, line 42).                                            *)
(***************************************************************************)
EXTENDS Integers, Sequences, FiniteSets, Bags, TLC

VARIABLES
    config,      \* options read from config.ini: option name -> string
    dirs,        \* directories of the working tree (set of paths)
    files,       \* regular files of the working tree: path -> content
    pc,          \* position of the run inside Generator.__init__
    run,         \* number of the current run of the tool
    now,         \* wall clock, in ticks of 1/TicksPerSecond second
    budget,      \* I/O failures the environment may cause in all
    faults,      \* I/O failures caused so far
    addons,      \* _generate_zip_files: entries of the listing still to visit
    listing,     \* _generate_zip_files: the listing taken at line 94
    version,     \* _generate_zip_files: local variable version
    addonid,     \* _generate_zip_files: local variable addonid
    addons_xml,  \* _generate_addons_file: the string built in memory
    stages,      \* stages completed by the current run, in order
    raised,      \* listing entries whose processing raised in this run
    start        \* the tree as it was when the current run started

vars == <<config, budget, dirs, files, pc, run, now, faults, addons, listing,
          version, addonid, addons_xml, stages, raised, start>>

----------------------------------------------------------------------------
(* Bounds *)

MaxRuns == 3
MaxFaults == 1

(* Program constants *)

TicksPerSecond == 2

----------------------------------------------------------------------------
(* Strings *)

SEP == "/"

\* str.lower() on one symbol
Lower(s) ==
    CASE s = "PYC" -> "pyc"
      [] s = "A" -> "a"
      [] s = "B" -> "b"
      [] s = "R" -> "r"
      [] s = "README" -> "readme"
      [] OTHER -> s

LowerStr(str) == [i \in 1..Len(str) |-> Lower(str[i])]

\* positions of symbol c in str
Positions(str, c) == {i \in 1..Len(str) : str[i] = c}

SetMax(S) == CHOOSE m \in S : \A n \in S : n <= m

\* the k-th smallest element of the set of numbers S
Kth(S, k) == CHOOSE x \in S : Cardinality({y \in S : y < x}) = k - 1

\* str.split(c): the pieces between the occurrences of c, empty pieces kept
Split(str, c) ==
    LET cuts == Positions(str, c) \cup {0, Len(str) + 1}
    IN  [k \in 1..(Cardinality(cuts) - 1) |->
            SubSeq(str, Kth(cuts, k) + 1, Kth(cuts, k + 1) - 1)]

\* os.path.splitext(name)[-1]: from the last dot on, unless only dots precede it
Splitext(name) ==
    LET dots == Positions(name, ".")
    IN  IF dots = {} THEN <<>>
        ELSE LET d == SetMax(dots)
             IN  IF \A i \in 1..(d - 1) : name[i] = "." THEN <<>>
                 ELSE SubSeq(name, d, Len(name))

\* datetime.now().strftime("%Y%m%d%H%M%S"): the clock cut to whole seconds
Strftime(t) == <<ToString(t \div TicksPerSecond)>>

----------------------------------------------------------------------------
(* Paths *)

\* the working directory, as an absolute path
Cwd == <<SEP, "repo">>

\* components of a path string: split at "/", empty components dropped
Components(str) == SelectSeq(Split(str, SEP), LAMBDA n : n # <<>>)

\* the file-system path a path string denotes; a path outside the working
\* directory keeps a leading <<"/">> and denotes nothing in the tree
Resolve(str) ==
    LET comps == Components(str)
    IN  IF str # <<>> /\ str[1] = SEP
        THEN IF comps # <<>> /\ comps[1] = <<"repo">> THEN Tail(comps)
             ELSE <<<<SEP>>>> \o comps
        ELSE comps

Prefixes(p) == {SubSeq(p, 1, n) : n \in 1..Len(p)}

isfile(str) == Resolve(str) \in DOMAIN files
isdir(str) == Resolve(str) \in dirs \/ Resolve(str) = <<>>
exists(str) == isfile(str) \/ isdir(str)

\* os.listdir("."): the names of the entries of the working directory
listdir == {p[1] : p \in {q \in dirs \cup DOMAIN files : Len(q) = 1}}

\* os.makedirs(str), applied to a set of directories
makedirs(ds, str) == ds \cup Prefixes(Resolve(str))

\* f with path p bound to content c
Put(f, p, c) == [q \in DOMAIN f \cup {p} |-> IF q = p THEN c ELSE f[q]]

----------------------------------------------------------------------------
(* File contents *)

AddonXml == <<"addon", ".", "xml">>
IconPng == <<"icon", ".", "png">>
FanartJpg == <<"fanart", ".", "jpg">>
AddonsXml == <<"addon", "s", ".", "xml">>
AddonsXmlMd5 == <<"addon", "s", ".", "xml", ".", "md5">>
TemplateXml == <<"template", ".", "xml">>

\* an addon.xml.  of: the text of the file, named after the directory it was
\* written for.  tag: "addon" when the document parses and has an addon
\* element, whose attributes are id and version ("" when the attribute is
\* absent, as getAttribute returns); "noaddon" when it parses and has no
\* addon element; "bad" when it is text that does not parse; "binary" when it
\* cannot even be decoded as text.
Manifest(of, tag, id, ver) ==
    [k |-> "manifest", of |-> of, tag |-> tag, id |-> id, version |-> ver]

\* any other file: its content plays no role
Bin == [k |-> "bin"]

\* a file opened for writing whose write failed
Truncated == [k |-> "truncated"]

\* hashlib.md5(data).hexdigest(): a function of the data alone, taken to be
\* free of collisions
Md5(data) == [k |-> "md5", of |-> data]

----------------------------------------------------------------------------
(* config.ini *)

Options ==
    {"addon.id", "addon.name", "addon.version", "addon.author",
     "addon.summary", "addon.description", "addon.excludes",
     "locations.output_path", "locations.url"}

ConfigIni(outp, excl) ==
    [o \in Options |->
        CASE o = "addon.id" -> <<"R">>
          [] o = "addon.version" -> <<"1">>
          [] o = "addon.excludes" -> excl
          [] o = "locations.output_path" -> outp
          [] OTHER -> <<"text">>]

Without(cfg, o) == [x \in DOMAIN cfg \ {o} |-> cfg[x]]

ExPyc == <<".", "pyc">>
ConfigSep == ConfigIni(<<"out", SEP>>, ExPyc)
ConfigNoSep == ConfigIni(<<"out">>, ExPyc)

\* the values of addon.excludes that are tried
ExcludesOptions ==
    { <<".", "pyc", ",", ".", "md">>,
      <<".", "pyc", ",", " ", ".", "md">>,
      <<".", "PYC">>,
      <<>> }

----------------------------------------------------------------------------
(* Working trees *)

DirsOf(f) == UNION {Prefixes(p) \ {p} : p \in DOMAIN f}

\* a package directory d with manifest m and the other files named in fs
Pkg(d, m, fs) ==
    [p \in {<<d, AddonXml>>} \cup {<<d>> \o f : f \in fs} |->
        IF p = <<d, AddonXml>> THEN m ELSE Bin]

Tools == <<"_tools">>
Git == <<".", "git">>
OutDir == <<"_", "out">>
Template == (<<Tools, TemplateXml>> :> Bin)
Script == (<<Tools, <<"generate_repo", ".", "py">>>> :> Bin)

A == <<"A">>
B == <<"B">>
V1 == <<"1">>
V2 == <<"2">>
Assets == {<<IconPng>>, <<FanartJpg>>}
OkA == Pkg(A, Manifest(A, "addon", A, V1), Assets)
OkB == Pkg(B, Manifest(B, "addon", B, V2), {})

\* the file tree used to exercise the extension filter
Sources ==
    { <<<<"main", ".", "py">>>>, <<<<"main", ".", "pyc">>>>,
      <<<<"X", ".", "PYC">>>>, <<<<"notes", ".", "md">>>>,
      <<<<"lib">>, <<"mod", ".", "pyc">>>>, <<<<"README">>>>,
      <<<<".", "hidden">>>> }

Trees ==
    { \* two well-formed packages
      Script @@ Template @@ OkA @@ OkB,
      \* the repository's own manifest is already there
      Script @@ OkA @@ Pkg(<<"R">>, Manifest(<<"R">>, "addon", <<"R">>, V1), {}),
      \* first bootstrap, template missing
      Script @@ OkA,
      \* manifests that are not well formed
      Script @@ Template @@ Pkg(A, Manifest(A, "noaddon", <<>>, <<>>), {}) @@ OkB,
      Script @@ Template @@ Pkg(A, Manifest(A, "addon", <<>>, V1), {}) @@ OkB,
      Script @@ Template @@ Pkg(A, Manifest(A, "addon", A, <<>>), {}) @@ OkB,
      Script @@ Template @@ Pkg(A, Manifest(A, "bad", <<>>, <<>>), {}) @@ OkB,
      Script @@ Template @@ Pkg(A, Manifest(A, "binary", <<>>, <<>>), {}) @@ OkB,
      \* directory name different from the declared id
      Script @@ Template @@ Pkg(A, Manifest(A, "addon", <<"C">>, V1), Assets),
      Script @@ Template @@ Pkg(A, Manifest(A, "addon", B, V1), {}) @@ OkB,
      \* a manifest inside the directories that are to be left alone
      Script @@ Template @@ OkA @@ Pkg(Tools, Manifest(Tools, "addon", <<"T">>, V1), {}),
      Script @@ Template @@ OkA @@ Pkg(Git, Manifest(Git, "addon", <<"G">>, V1), {}),
      Script @@ Template @@ OkA @@ Pkg(OutDir, Manifest(OutDir, "addon", <<"O">>, V1), {}) }

SourceTree == Script @@ Template @@ Pkg(A, Manifest(A, "addon", A, V1), Sources)

\* the runs that are explored: a configuration and a working tree
\* and the number of I/O failures that may strike
Scenarios ==
    ({ConfigSep} \X Trees \X {0})
    \cup ({ConfigNoSep} \X {Script @@ Template @@ OkA} \X {0})
    \cup ({ConfigSep} \X {Script @@ Template @@ OkA @@ OkB} \X {MaxFaults})
    \cup ({Without(ConfigSep, o) : o \in Options} \X {Script @@ Template @@ OkA} \X {0})
    \cup ({ConfigIni(<<"out", SEP>>, e) : e \in ExcludesOptions} \X {SourceTree} \X {0})

Unbound == <<"<unbound>">>

Init ==
    \E sc \in Scenarios :
        /\ config = sc[1]
        /\ files = sc[2]
        /\ dirs = DirsOf(sc[2])
        /\ pc = "init"
        /\ run = 1
        /\ now = 0
        /\ budget = sc[3]
        /\ faults = 0
        /\ addons = {}
        /\ listing = {}
        /\ version = Unbound
        /\ addonid = Unbound
        /\ addons_xml = EmptyBag
        /\ stages = <<>>
        /\ raised = {}
        /\ start = [dirs |-> DirsOf(sc[2]), files |-> sc[2], faults |-> 0]

----------------------------------------------------------------------------
(* Generator.__init__, lines 33-42 *)

tools_path == Cwd \o <<SEP, "_tools">>
output_path == <<"_">> \o config["locations.output_path"]
excludes == Split(config["addon.excludes"], ",")

\* os.path.join(a, b) for a relative b
join(a, b) == a \o <<SEP>> \o b

\* the outcomes of one guarded I/O operation: it succeeds, or it fails in one
\* of the given ways while failures may still be injected
Outcomes(ways) == {"ok"} \cup (IF faults < budget THEN ways ELSE {})
Count(o) == IF o = "ok" THEN faults ELSE faults + 1

\* _save_file(data, file) applied to the files f: the open fails and the
\* file is left as it was, the write fails after the open has cut the file,
\* or the data are written.  Nothing is raised to the caller.
CanOpen(f, ds, file) ==
    LET p == Resolve(file)
    IN  /\ p # <<>>
        /\ p \notin ds
        /\ Len(p) > 1 => SubSeq(p, 1, Len(p) - 1) \in ds
        /\ p[1] # <<SEP>>
_save_file(f, ds, data, file, o) ==
    IF o = "open" \/ ~CanOpen(f, ds, file) THEN f
    ELSE IF o = "write" THEN Put(f, Resolve(file), Truncated)
    ELSE Put(f, Resolve(file), data)

\* the calls of the constructor with the archiver before the aggregator
Pipeline_ArchiverThird ==
    <<"pre_run", "repo_files", "zip_files", "addons_file", "md5_file">>

\* lines 45-49: the calls of the constructor, in order
Pipeline ==
    <<"pre_run", "repo_files", "addons_file", "md5_file", "zip_files">>

\* where the constructor goes on when the call named stage returns
After(stage) ==
    LET i == CHOOSE j \in 1..Len(Pipeline) : Pipeline[j] = stage
    IN  IF i = Len(Pipeline) THEN "done" ELSE Pipeline[i + 1]

Load ==
    /\ pc = "init"
    /\ pc' = IF {"locations.output_path", "addon.excludes"} \subseteq DOMAIN config
             THEN Pipeline[1] ELSE "aborted"
    /\ stages' = Append(stages, "config")
    /\ UNCHANGED <<config, budget, dirs, files, run, now, faults, addons, listing,
                   version, addonid, addons_xml, raised, start>>

\* lines 55-58
_pre_run ==
    /\ pc = "pre_run"
    /\ dirs' = IF exists(output_path) THEN dirs ELSE makedirs(dirs, output_path)
    /\ pc' = After("pre_run")
    /\ stages' = Append(stages, "pre_run")
    /\ UNCHANGED <<config, budget, files, run, now, faults, addons, listing,
                   version, addonid, addons_xml, raised, start>>

\* template_xml.format(...): the template is taken to declare the addon
\* element with the configured id and version
Format(id, ver) == Manifest(id, "addon", id, ver)

\* lines 60-91
_generate_repo_files ==
    /\ pc = "repo_files"
    /\ stages' = Append(stages, "repo_files")
    /\ IF ~({"addon.id", "addon.name", "addon.version", "addon.author",
             "addon.summary", "addon.description", "locations.url"}
                \subseteq DOMAIN config)
       THEN pc' = "aborted" /\ UNCHANGED <<dirs, files, faults>>
       ELSE LET id == config["addon.id"]
            IN  IF isfile(join(id, AddonXml))
                THEN pc' = After("repo_files") /\ UNCHANGED <<dirs, files, faults>>
                ELSE IF ~isfile(join(tools_path, TemplateXml))
                THEN pc' = "aborted" /\ UNCHANGED <<dirs, files, faults>>
                ELSE \E o \in Outcomes({"open", "write"}) :
                        LET ds == IF exists(id) THEN dirs ELSE makedirs(dirs, id)
                        IN  /\ dirs' = ds
                            /\ files' = _save_file(files, ds,
                                            Format(id, config["addon.version"]),
                                            join(id, AddonXml), o)
                            /\ faults' = Count(o)
                            /\ pc' = After("repo_files")
    /\ UNCHANGED <<config, budget, run, now, addons, listing, version, addonid,
                   addons_xml, raised, start>>

\* the aggregate document: the manifests it holds, each as often as it was
\* appended (the order of os.listdir is left out)
Doc(body) == [k |-> "doc", body |-> body]

\* can the file be read as text (line 151-152)
Readable(c) == ~(c.k = "manifest" /\ c.tag = "binary")

\* lines 143-161
_generate_addons_file ==
    /\ pc = "addons_file"
    /\ LET cand == {a \in listdir : isfile(join(a, AddonXml))}
           read == {a \in cand : Readable(files[Resolve(join(a, AddonXml))])}
           Text(a) == files[Resolve(join(a, AddonXml))]
           body == [c \in {Text(a) : a \in read} |->
                        Cardinality({a \in read : Text(a) = c})]
       IN  /\ addons_xml' = body
           /\ \E o \in Outcomes({"open", "write"}) :
                /\ files' = _save_file(files, dirs, Doc(body),
                                       output_path \o AddonsXml, o)
                /\ faults' = Count(o)
    /\ pc' = After("addons_file")
    /\ stages' = Append(stages, "addons_file")
    /\ UNCHANGED <<config, budget, dirs, run, now, addons, listing, version, addonid,
                   raised, start>>

\* lines 163-174
_generate_md5_file ==
    /\ pc = "md5_file"
    /\ IF ~isfile(output_path \o AddonsXml)
       THEN UNCHANGED <<files, faults>>
       ELSE \E o \in Outcomes({"open", "write"}) :
                /\ files' = _save_file(files, dirs,
                                Md5(files[Resolve(output_path \o AddonsXml)]),
                                output_path \o AddonsXmlMd5, o)
                /\ faults' = Count(o)
    /\ pc' = After("md5_file")
    /\ stages' = Append(stages, "md5_file")
    /\ UNCHANGED <<config, budget, dirs, run, now, addons, listing, version, addonid,
                   addons_xml, raised, start>>

----------------------------------------------------------------------------
(* The archiver, lines 93-141 *)

\* ZipEntries without the lower() of line 118
ZipEntries_NoLower(f, path) ==
    UNION {{p \in DOMAIN f :
                /\ Len(p) > Len(root)
                /\ SubSeq(p, 1, Len(root)) = root
                /\ \A i \in 1..Len(ex) : ex[i] # Splitext(p[Len(p)])}
           : root \in {Resolve(path)}, ex \in {excludes}}

\* lines 116-120: the files under path whose lower-cased extension is not an
\* element of the excludes list; an entry is named by os.path.join(root, file)
ZipEntries(f, path) ==
    UNION {{p \in DOMAIN f :
                /\ Len(p) > Len(root)
                /\ SubSeq(p, 1, Len(root)) = root
                /\ \A i \in 1..Len(ex) : ex[i] # LowerStr(Splitext(p[Len(p)]))}
           : root \in {Resolve(path)}, ex \in {excludes}}

\* the archive written by zipfile.ZipFile; of and build record which
\* directory was walked and during which run
Zip(f, path) ==
    [k |-> "zip", entries |-> ZipEntries(f, path), of |-> path, build |-> run]

\* lines 113, 122, 125: the names _generate_zip_file works with
Filename(path, ver) == path \o <<"-">> \o ver \o <<".", "zip">>
Out(id) == output_path \o id
Dest(path, ver, id) == Out(id) \o <<SEP>> \o Filename(path, ver)

\* lines 129-137: the files shutil.copy writes into the output subdirectory.
\* The manifest is copied from the directory named id; the icon and the
\* fanart are copied when they are there.
Copied(id) ==
    LET names == {n \in {AddonXml, IconPng, FanartJpg} : isfile(join(id, n))}
    IN  [q \in {Resolve(join(Out(id), n)) : n \in names} |->
            files[Resolve(join(id, q[Len(q)]))]]

\* _generate_zip_file(path, ver, id), lines 111-141.  o is the operation that
\* fails ("ok": none does), t the clock read at line 127.  The result is the
\* tree the call leaves behind and whether the except clause of line 139 ran.
\* The archive is written into the working directory (line 115); an archive
\* already at the destination is renamed, replacing what bears the new name
\* (line 126); the new archive is moved to the destination (line 128); the
\* manifest and the assets are copied (lines 129-137).  The call stops at the
\* first operation that raises.
_generate_zip_file(path, ver, id, o, t) ==
    CHOOSE result \in
        { LET old == dest \in DOMAIN files
              \* the files after the rename of line 126
              kept == IF old THEN (DOMAIN files \ {dest}) \cup {backup}
                      ELSE DOMAIN files
              Was(q) == IF old /\ q = backup THEN files[dest] ELSE files[q]
          IN  IF o = "zip"
              THEN [dirs |-> dirs, raised |-> TRUE,
                    files |-> Put(files, filename, Truncated)]
              ELSE IF o = "rename" /\ old
              THEN [dirs |-> made, raised |-> TRUE,
                    files |-> Put(files, filename, zip)]
              ELSE IF o = "move"
              THEN [dirs |-> made, raised |-> TRUE,
                    files |-> [q \in kept \cup {filename} |->
                                IF q = filename THEN zip ELSE Was(q)]]
              ELSE IF ~isfile(join(id, AddonXml))
              THEN [dirs |-> made, raised |-> TRUE,
                    files |-> [q \in (kept \ {filename}) \cup {dest} |->
                                IF q = dest THEN zip ELSE Was(q)]]
              ELSE [dirs |-> made, raised |-> FALSE,
                    files |-> [q \in (kept \ {filename}) \cup {dest}
                                        \cup DOMAIN copied |->
                                IF q \in DOMAIN copied THEN copied[q]
                                ELSE IF q = dest THEN zip ELSE Was(q)]]
          : filename \in {Resolve(Filename(path, ver))},
            dest \in {Resolve(Dest(path, ver, id))},
            backup \in {Resolve(Dest(path, ver, id) \o <<".">> \o Strftime(t))},
            zip \in {Zip(files, path)},
            made \in {IF exists(Out(id)) THEN dirs ELSE makedirs(dirs, Out(id))},
            copied \in {Copied(id)} } : TRUE

\* line 94
_generate_zip_files ==
    /\ pc = "zip_files"
    /\ listing' = listdir
    /\ addons' = listdir
    /\ pc' = "zip_loop"
    /\ UNCHANGED <<config, budget, dirs, files, run, now, faults, version, addonid,
                   addons_xml, stages, raised, start>>

\* the value of minidom.parse(_path): does the file parse, and if it does,
\* has the document an addon element
Parses(c) == c.k = "manifest" /\ c.tag \in {"addon", "noaddon"}

\* An entry the loop passes over whenever it meets it: it is one of the three
\* names of line 100, or it has no manifest and cannot get one while the loop
\* runs (line 129 writes a manifest into a directory of the listing only when
\* output_path + id names a directory of the working directory itself).
Passed(a) ==
    \/ a \in {Git, output_path, tools_path}
    \/ /\ ~isfile(join(a, AddonXml))
       /\ ~(/\ <<a>> \in dirs
            /\ Len(a) > Len(output_path)
            /\ SubSeq(a, 1, Len(output_path)) = output_path)

\* os.listdir fixes no order.  Visiting a passed entry changes nothing but the
\* position in the loop, so it commutes with every other turn: the passed
\* entries are taken first, one after the other, the others in any order.
Turns ==
    LET P == {a \in addons : Passed(a)}
    IN  IF P # {} THEN {CHOOSE a \in P : TRUE} ELSE addons

\* the except clauses left out: the exception ends the run
AfterRaise_Propagates == "aborted"

\* lines 107-109 and 139-141: an exception raised while an entry is processed
\* is printed and the loop goes on with the next entry
AfterRaise == "zip_loop"

\* lines 95-109: one turn of the loop, for the entry addon of the listing
Visit(addon) ==
    /\ pc = "zip_loop"
    /\ addon \in Turns
    /\ addons' = addons \ {addon}
    /\ IF ~isfile(join(addon, AddonXml))
       THEN UNCHANGED <<pc, dirs, files, faults, version, addonid, raised>>
       ELSE IF ~isdir(addon) \/ addon \in {Git, output_path, tools_path}
       THEN UNCHANGED <<pc, dirs, files, faults, version, addonid, raised>>
       ELSE \E m \in {files[Resolve(join(addon, AddonXml))]} :
            \E ver \in {IF Parses(m) /\ m.tag = "addon" THEN m.version ELSE version},
               id \in {IF Parses(m) /\ m.tag = "addon" THEN m.id ELSE addonid} :
                IF ~Parses(m) \/ ver = Unbound
                THEN /\ raised' = raised \cup {addon}
                     /\ pc' = AfterRaise
                     /\ UNCHANGED <<dirs, files, faults, version, addonid>>
                ELSE \E o \in Outcomes({"zip", "move"} \cup
                            (IF isfile(Dest(addon, ver, id)) THEN {"rename"} ELSE {})) :
                     \E r \in {_generate_zip_file(addon, ver, id, o, now)} :
                        /\ version' = ver
                        /\ addonid' = id
                        /\ dirs' = r.dirs
                        /\ files' = r.files
                        /\ raised' = IF r.raised THEN raised \cup {addon}
                                     ELSE raised
                        /\ faults' = Count(o)
                        /\ pc' = IF r.raised THEN AfterRaise ELSE pc
    /\ UNCHANGED <<config, budget, run, now, listing, addons_xml, stages, start>>

\* lines 51-53
Finish ==
    /\ pc = "zip_loop"
    /\ addons = {}
    /\ pc' = After("zip_files")
    /\ stages' = Append(stages, "zip_files")
    /\ UNCHANGED <<config, budget, dirs, files, run, now, faults, addons, listing,
                   version, addonid, addons_xml, raised, start>>

\* the tool is started again on the tree the last run left, at once or a
\* tick later (a run is taken to last less than a tick)
Rerun ==
    /\ pc \in {"done", "aborted"}
    /\ run < MaxRuns
    /\ now' \in {now, now + 1}
    /\ run' = run + 1
    /\ pc' = "init"
    /\ addons' = {}
    /\ listing' = {}
    /\ version' = Unbound
    /\ addonid' = Unbound
    /\ addons_xml' = EmptyBag
    /\ stages' = <<>>
    /\ raised' = {}
    /\ start' = [dirs |-> dirs, files |-> files, faults |-> faults]
    /\ UNCHANGED <<config, budget, dirs, files, faults>>

Next ==
    \/ Load
    \/ _pre_run
    \/ _generate_repo_files
    \/ _generate_addons_file
    \/ _generate_md5_file
    \/ _generate_zip_files
    \/ \E addon \in Turns : Visit(addon)
    \/ Finish
    \/ Rerun

Spec == Init /\ [][Next]_vars

\* the interpreter runs the constructor statement after statement: a step
\* that can be taken is taken
FairSpec == Spec /\ WF_vars(Next)

----------------------------------------------------------------------------
(* Properties *)

Aggregate == Resolve(output_path \o AddonsXml)
Stamp == Resolve(output_path \o AddonsXmlMd5)
Parent(p) == SubSeq(p, 1, Len(p) - 1)
Elems(seq) == {seq[i] : i \in 1..Len(seq)}

\* the manifest of the top-level directory a, if it has one
ManifestOf(a) == files[<<a, AddonXml>>]
HasManifest(a) == <<a, AddonXml>> \in DOMAIN files

\* the manifest declares an addon element with both attributes
Valid(m) ==
    m.k = "manifest" /\ m.tag = "addon" /\ m.id # <<>> /\ m.version # <<>>

\* no I/O failure has struck during the current run
NoFailure == faults = start.faults

\* the top-level directory a is the output directory or carries its name as a
\* prefix: the tool wrote it
Written(a) ==
    LET o == Resolve(output_path)[1]
    IN  Len(a) >= Len(o) /\ SubSeq(a, 1, Len(o)) = o

\* the archive at path p was built by the current run from directory a
BuiltFrom(p, a) ==
    files[p].k = "zip" /\ files[p].of = a /\ files[p].build = run

\* C1: at the end of every run the stamp in the output location is the hash
\* of the aggregate document as it is in the output location.
C1_StampIsHashOfAggregate ==
    (pc = "done" /\ Aggregate \in DOMAIN files) =>
        /\ Stamp \in DOMAIN files
        /\ files[Stamp] = Md5(files[Aggregate])

\* C2: every archive that was in an output subdirectory when a run started
\* is still in that subdirectory, under some name.
C2_ArchivesKept ==
    \A p \in DOMAIN start.files :
        (start.files[p].k = "zip" /\ Len(p) > 1) =>
            \E q \in DOMAIN files :
                Parent(q) = Parent(p) /\ files[q] = start.files[p]

\* C3: no archive is ever built from a directory whose manifest does not
\* parse, has no addon element, or lacks the id or the version attribute.
C3_InvalidSkipped ==
    \A p \in DOMAIN files :
        (files[p].k = "zip" /\ HasManifest(files[p].of)) =>
            Valid(ManifestOf(files[p].of))

\* C4: no archive is ever built from the output directory, the .git
\* directory, the tooling directory or a directory the tool wrote itself.
C4_NeverPackaged ==
    \A p \in DOMAIN files :
        files[p].k = "zip" =>
            /\ files[p].of \notin {Git, Tools}
            /\ ~Written(files[p].of)

\* C5: the aggregate document holds the content of every readable manifest
\* of a top-level directory exactly once.
C5_EachManifestOnce ==
    pc = "md5_file" =>
        \A a \in listdir :
            (HasManifest(a) /\ Readable(ManifestOf(a))) =>
                CopiesIn(ManifestOf(a), addons_xml) = 1

\* C6: when a run aborts, it has created or changed no directory and no file.
C6_AbortWritesNothing ==
    pc = "aborted" => (dirs = start.dirs /\ files = start.files)

\* C7 as stated: an archive built by a step has one entry for each file
\* under the package directory whose extension is not excluded, named by the
\* file's path relative to the package directory.
C7_EntriesRelativeToPackage ==
    [][\A p \in DOMAIN files' :
          (files'[p].k = "zip" /\ files'[p].build = run /\ p \notin DOMAIN files) =>
              files'[p].entries =
                  {Tail(q) : q \in {x \in DOMAIN files :
                      /\ Len(x) > 1
                      /\ x[1] = files'[p].of
                      /\ Splitext(x[Len(x)]) \notin Elems(excludes)}}]_vars

\* C7 amended: an archive built by a step has one entry for each file under
\* the package directory whose lower-cased extension is not one of the
\* comma-separated pieces of addon.excludes, none for any other file, and
\* each entry is named by the file's path from the working directory: the
\* name of the package directory followed by the path inside it.
C7_EntriesRelativeToWorkingDir ==
    [][\A p \in DOMAIN files' :
          (files'[p].k = "zip" /\ files'[p].build = run /\ p \notin DOMAIN files) =>
              files'[p].entries =
                  {q \in DOMAIN files :
                      /\ Len(q) > 1
                      /\ q[1] = files'[p].of
                      /\ LowerStr(Splitext(q[Len(q)])) \notin Elems(excludes)}]_vars

\* an archive of A holds a file of a subdirectory and leaves a file of A out
C7_Witness ==
    \E p \in DOMAIN files :
        /\ files[p].k = "zip"
        /\ files[p].of = A
        /\ \E q \in files[p].entries : Len(q) > 2
        /\ \E q \in DOMAIN files : q[1] = A /\ q \notin files[p].entries

\* C8: at the end of a run without I/O failure, every package of the listing
\* with a valid manifest has, in the output subdirectory named by its id, the
\* archive of this run and a copy of its own manifest.
C8_ArchiveAndOwnManifest ==
    (pc = "done" /\ NoFailure) =>
        \A a \in listing :
            (/\ HasManifest(a)
             /\ Valid(ManifestOf(a))
             /\ a \notin {Git, Tools}
             /\ ~Written(a)) =>
                LET m == ManifestOf(a)
                    d == Resolve(Dest(a, m.version, m.id))
                    c == Resolve(join(Out(m.id), AddonXml))
                IN  /\ d \in DOMAIN files
                    /\ BuiltFrom(d, a)
                    /\ c \in DOMAIN files
                    /\ files[c] = m

\* the listing entry a is one the loop archives: a directory with a manifest
\* that is not one of the names of line 100 and was not written by the tool
Eligible(a) ==
    /\ <<a>> \in dirs
    /\ HasManifest(a)
    /\ a \notin {Git, output_path, tools_path}
    /\ ~Written(a)

\* every eligible entry whose own processing raised nothing has an archive of
\* this run in an output subdirectory
Isolated ==
    pc = "done" =>
        \A a \in listing \ raised :
            Eligible(a) => \E p \in DOMAIN files : Len(p) > 1 /\ BuiltFrom(p, a)

\* the order in which the stages of the code complete
CodeOrder ==
    <<"config", "pre_run", "repo_files", "addons_file", "md5_file", "zip_files">>

C10_ArchiverBeforeAggregator ==
    pc = "done" =>
        SelectSeq(stages, LAMBDA st : st # "pre_run") =
            <<"config", "repo_files", "zip_files", "addons_file", "md5_file">>

\* C10 amended: the stages of a run are loader, creation of the output
\* directory, bootstrapper, aggregator, stamper, archiver, in this order, each
\* completing before the next starts; no archive of the run exists before the
\* stamper has returned.
C10_ArchiverLast ==
    /\ Len(stages) <= Len(CodeOrder)
    /\ stages = SubSeq(CodeOrder, 1, Len(stages))
    /\ pc = "done" => stages = CodeOrder
    /\ (\E p \in DOMAIN files : files[p].k = "zip" /\ files[p].build = run)
          => Len(stages) >= 5

\* a run has ended with an archive of its own in the output tree
C10_Witness ==
    /\ pc = "done"
    /\ Aggregate \in DOMAIN files
    /\ Stamp \in DOMAIN files
    /\ \E p \in DOMAIN files : Len(p) > 1 /\ files[p].k = "zip" /\ files[p].build = run

====
